---- MODULE Spec2Model ----
(***************************************************************************)
(* Document retriever service (data_ingestion/retriever_agent/             *)
(* retriever_service.py): a Redis hash per document, one process-wide      *)
(* FAISS inner-product index, and the add / get / search / delete / health *)
(* handlers over them.                                                     *)
(*                                                                         *)
(* The handlers receive the client built by get_redis_client, which is     *)
(* redis.asyncio.Redis (line 11 imports redis.asyncio as redis).  Every    *)
(* command of that client is a coroutine function: a call that is awaited  *)
(* runs the command and yields its reply, a call that is NOT awaited runs  *)
(* nothing and yields a coroutine object (truthy, not a mapping), and      *)
(* scan_iter yields an async generator, which a plain for cannot iterate.  *)
(* Each handler below is translated statement by statement with that       *)
(* semantics.                                                              *)
(*                                                                         *)
(* Numbers are scaled: vectors have Dim integer components, a score is the *)
(* integer inner product, and min_score is given in halves.                *)
(***************************************************************************)
EXTENDS Integers, Sequences, FiniteSets, TLC

VARIABLES
  redis_db,      \* Redis keyspace: key -> hash (field -> value)
  faiss_index,   \* the global faiss_index: the vectors, in insertion order
  resp,          \* the response of the last request, with its arguments
  owner,         \* history: owner[p] = id of the add that appended position p
  n_added,       \* history: add_document calls that succeeded since the last rebuild
  n_scanned,     \* history: records the last rebuild scanned
  last_ok,       \* history: per id, the request of its latest successful add
  touched,       \* history: per id, a failed add wrote its record since last_ok
  deleted,       \* history: ids removed by delete_document and not added again
  CACHE,         \* api_service.CACHE: cache key -> [data, timestamp]
  now,           \* the clock datetime.now() reads, in seconds
  history_calls, \* history: calls of ticker.history so far
  m_resp,        \* the response of the last market-data request
  pc,            \* per request slot: where its handler stands ("idle": no request)
  req,           \* per request slot: the request being handled
  cap,           \* per request slot: the index object get_faiss_index returned
  index_objs,    \* the index objects created so far, each with its vectors
  faiss_global,  \* the object the global name faiss_index is bound to
  c_resp,        \* per request slot: the response of its last request
  n_started,     \* history: requests begun so far
  o_resp,        \* orchestrator: the response to the last request
  n_forwarded    \* history: requests the orchestrator passed on to an agent

retrieverVars == <<redis_db, faiss_index, resp, owner, n_added, n_scanned,
                   last_ok, touched, deleted>>

marketVars == <<CACHE, now, history_calls, m_resp>>

concVars == <<pc, req, cap, index_objs, faiss_global, c_resp, n_started>>

orchVars == <<o_resp, n_forwarded>>

vars == <<retrieverVars, marketVars, concVars, orchVars>>

----------------------------------------------------------------------------
(* Bounds *)

\* number of vector components (stands for dimension = 384)
Dim == 2

\* add_document is not called once the index holds this many vectors
MaxVectors == 2

\* the clock does not advance beyond this many seconds
MaxTime == 400

\* the upstream is not asked for a quote more often than this
MaxFetches == 2

\* no more than this many requests are begun when requests overlap
MaxRequests == 4

\* the same, where every request is followed to its response
MaxFairRequests == 3

\* the orchestrator passes on no more than this many requests
MaxForwards == 3

----------------------------------------------------------------------------
(* Values *)

Ids == {"a", "b"}

Contents == {"apple", "banana"}

Unit(i) == [j \in 1..Dim |-> IF j = i THEN 1 ELSE 0]

\* the empty list; an omitted embedding (None) takes the same branch of line 146
NoEmbedding == <<>>

\* embeddings a request may carry: unit, not unit, all zero, one component short
Embeddings ==
  { NoEmbedding, Unit(1), Unit(Dim),
    [j \in 1..Dim |-> IF j = 1 THEN 2 ELSE 0],
    [j \in 1..Dim |-> 0],
    [j \in 1..(Dim - 1) |-> IF j = 1 THEN 1 ELSE 0] }

\* metadata: a dict, as its items in insertion order
Metadatas == { <<>>, << <<"source", "test">> >> }

Strings == {"source", "test"}

Components == 0..2

RECURSIVE DotFrom(_, _, _)
DotFrom(u, v, k) == IF k > Len(u) THEN 0 ELSE u[k] * v[k] + DotFrom(u, v, k + 1)

\* inner product
Dot(u, v) == DotFrom(u, v, 1)

\* squared L2 norm; a vector has unit norm iff it is 1
NormSq(v) == Dot(v, v)

Document(id, content, metadata, embedding) ==
  [id |-> id, content |-> content, metadata |-> metadata, embedding |-> embedding]

\* the request bodies of POST /documents
Requests ==
  { Document(i, "apple", <<>>, Unit(1)) : i \in Ids } \cup
  { Document(i, "banana", << <<"source", "test">> >>, Unit(Dim)) : i \in Ids } \cup
  { Document(i, "apple", << <<"source", "test">> >>, NoEmbedding) : i \in Ids } \cup
  { Document(i, "banana", <<>>, e) : i \in Ids,
      e \in Embeddings \ {NoEmbedding, Unit(1), Unit(Dim)} }

\* model.encode: deterministic, one vector of Dim components per text
Encode(text) == IF text = "apple" THEN Unit(1) ELSE Unit(Dim)

----------------------------------------------------------------------------
(* json.dumps / json.loads, on token sequences *)

Quote(s) == "\"" \o s \o "\""

RECURSIVE Join(_)
Join(parts) ==
  IF parts = <<>> THEN <<>>
  ELSE IF Len(parts) = 1 THEN parts[1]
  ELSE parts[1] \o <<",">> \o Join(Tail(parts))

\* json.dumps of a list of numbers
JsonDumpsList(v) ==
  <<"[">> \o Join([k \in 1..Len(v) |-> <<ToString(v[k])>>]) \o <<"]">>

\* json.dumps of a dict of strings
JsonDumpsDict(m) ==
  <<"{">> \o Join([k \in 1..Len(m) |-> <<Quote(m[k][1]), ":", Quote(m[k][2])>>])
          \o <<"}">>

ParseNumber(tok) == CHOOSE n \in Components : ToString(n) = tok

ParseString(tok) == CHOOSE s \in Strings : Quote(s) = tok

\* JsonLoadsList losing the last number of the list
JsonLoadsListShort(toks) ==
  LET inner == SubSeq(toks, 2, Len(toks) - 1)
      n == Len(inner) \div 2
  IN  [k \in 1..n |-> ParseNumber(inner[2 * k - 1])]

\* json.loads of the text of a list: the numbers between the brackets, commas skipped
JsonLoadsList(toks) ==
  LET inner == SubSeq(toks, 2, Len(toks) - 1)
      n == (Len(inner) + 1) \div 2
  IN  [k \in 1..n |-> ParseNumber(inner[2 * k - 1])]

\* json.loads of the text of a dict: key, colon, value, comma
JsonLoadsDict(toks) ==
  LET inner == SubSeq(toks, 2, Len(toks) - 1)
      n == (Len(inner) + 1) \div 4
  IN  [k \in 1..n |-> <<ParseString(inner[4 * k - 3]), ParseString(inner[4 * k - 1])>>]

----------------------------------------------------------------------------
(* Redis commands, as the server executes them *)

DocKey(id) == "doc:" \o id

EmptyHash == [f \in {} |-> <<>>]

Hset(db, key, mapping) ==
  [k \in DOMAIN db \cup {key} |-> IF k = key THEN mapping ELSE db[k]]

Hgetall(db, key) == IF key \in DOMAIN db THEN db[key] ELSE EmptyHash

Del(db, key) == [k \in DOMAIN db \ {key} |-> db[k]]

Exists(db, key) == IF key \in DOMAIN db THEN 1 ELSE 0

Dbsize(db) == Cardinality(DOMAIN db)

----------------------------------------------------------------------------
(* Python values a handler holds: [t |-> type, v |-> payload] *)

PyStr(s) == [t |-> "str", v |-> s]

PyInt(n) == [t |-> "int", v |-> n]

PyList(l) == [t |-> "list", v |-> l]

PyDict(h) == [t |-> "dict", v |-> h]

\* what a call of an async client method yields when it is not awaited: the
\* command is not run, its reply is not seen
NotAwaited(reply) == [t |-> "coroutine", v |-> 0]

\* what redis.asyncio's scan_iter yields: an async generator over the keys
AsyncGenerator(keys) == [t |-> "async_generator", v |-> 0]

\* bool(x): a dict is true iff not empty, an int iff not 0; coroutine and
\* generator objects are true
Truthy(x) ==
  CASE x.t = "dict" -> DOMAIN x.v # {}
    [] x.t = "int" -> x.v # 0
    [] OTHER -> TRUE

\* whether a plain for statement can iterate x
Iterable(x) == x.t \in {"dict", "list"}

DocumentFields == {"id", "content", "metadata", "embedding"}

\* Document(**x): <<document>>, or <<>> when it raises (x is no mapping, a field
\* is missing, or a field has the wrong type: pydantic takes no str for a Dict
\* or a List)
DocumentCtor(x) ==
  IF x.t # "dict" THEN <<>>
  ELSE IF DOMAIN x.v # DocumentFields THEN <<>>
  ELSE IF x.v.id.t = "str" /\ x.v.content.t = "str"
          /\ x.v.metadata.t = "dict" /\ x.v.embedding.t = "list"
       THEN << Document(x.v.id.v, x.v.content.v, x.v.metadata.v, x.v.embedding.v) >>
       ELSE <<>>

----------------------------------------------------------------------------
(* FAISS IndexFlatIP *)

\* FaissAdd accepting the vector without storing it
FaissAddDropped(index, x) == IF Len(x) = Dim THEN << index >> ELSE <<>>

\* index.add(x): <<index'>>, or <<>> when the wrapper's assert d == self.d fails
FaissAdd(index, x) == IF Len(x) = Dim THEN << Append(index, x) >> ELSE <<>>

\* a slot of the result that no vector fills
Pad == [score |-> -99, idx |-> -1]

\* TopK taking the worst score first
RECURSIVE TopKWorstFirst(_, _, _)
TopKWorstFirst(scores, k, taken) ==
  IF k = 0 THEN <<>>
  ELSE LET rest == (1..Len(scores)) \ taken
       IN  IF rest = {} THEN <<Pad>> \o TopKWorstFirst(scores, k - 1, taken)
           ELSE LET p == CHOOSE p \in rest : \A r \in rest :
                            \/ scores[p] < scores[r]
                            \/ scores[p] = scores[r] /\ p <= r
                IN  << [score |-> scores[p], idx |-> p - 1] >>
                    \o TopKWorstFirst(scores, k - 1, taken \cup {p})

\* the k best of the scores not yet taken, best first, the earlier position
\* first among equal scores
RECURSIVE TopK(_, _, _)
TopK(scores, k, taken) ==
  IF k = 0 THEN <<>>
  ELSE LET rest == (1..Len(scores)) \ taken
       IN  IF rest = {} THEN <<Pad>> \o TopK(scores, k - 1, taken)
           ELSE LET p == CHOOSE p \in rest : \A r \in rest :
                            \/ scores[p] > scores[r]
                            \/ scores[p] = scores[r] /\ p <= r
                IN  << [score |-> scores[p], idx |-> p - 1] >>
                    \o TopK(scores, k - 1, taken \cup {p})

\* index.search(q, k): k (score, position) pairs by descending inner product,
\* padded with position -1
FaissSearch(index, q, k) ==
  TopK([p \in 1..Len(index) |-> Dot(q, index[p])], k, {})

----------------------------------------------------------------------------
(* The handlers: what each computes from the store, the index and its request *)

\* lines 146-148: the document with its embedding computed when the request
\* carries none (or an empty one)
Embedded(request) ==
  IF request.embedding = <<>>
  THEN [request EXCEPT !.embedding = Encode(request.content)]
  ELSE request

\* POST /documents
AddDocument(db, index, request) ==
  LET document == Embedded(request)
      doc_dict == [id |-> PyStr(document.id),
                   content |-> PyStr(document.content),
                   metadata |-> PyStr(JsonDumpsDict(document.metadata)),
                   embedding |-> PyStr(JsonDumpsList(document.embedding))]
      db1 == Hset(db, DocKey(document.id), doc_dict)
      added == FaissAdd(index, document.embedding)
  IN  IF added = <<>>
      THEN [db |-> db1, index |-> index, status |-> 500, docs |-> <<>>]
      ELSE [db |-> db1, index |-> added[1], status |-> 200, docs |-> <<document>>]

\* GetDocument without the json.loads of lines 177 and 178
GetDocumentNoLoads(db, doc_id) ==
  LET doc_data == PyDict(Hgetall(db, DocKey(doc_id)))
  IN  IF ~Truthy(doc_data)
      THEN [status |-> 404, docs |-> <<>>]
      ELSE LET d == DocumentCtor(doc_data)
           IN  IF d = <<>> THEN [status |-> 500, docs |-> <<>>]
               ELSE [status |-> 200, docs |-> d]

\* GET /documents/{doc_id}
GetDocument(db, doc_id) ==
  LET doc_data == PyDict(Hgetall(db, DocKey(doc_id)))
  IN  IF ~Truthy(doc_data)
      THEN [status |-> 404, docs |-> <<>>]
      ELSE LET loaded == [doc_data.v EXCEPT
                            !.metadata = PyDict(JsonLoadsDict(@.v)),
                            !.embedding = PyList(JsonLoadsList(@.v))]
               d == DocumentCtor(PyDict(loaded))
           IN  IF d = <<>> THEN [status |-> 500, docs |-> <<>>]
               ELSE [status |-> 200, docs |-> d]

\* the key line 208 builds from a position the index returned
PositionKey(idx) == "doc:" \o ToString(idx)

\* Passes without the comparison with min_score
PassesAnyScore(hit, min_score) == hit.idx # -1

\* line 207: the hits the loop goes on to resolve (min_score in halves)
Passes(hit, min_score) == hit.idx # -1 /\ 2 * hit.score >= min_score

\* lines 206-211, from hit number k on: whether an exception was raised, the
\* results appended so far, and the hits that passed line 207 with the key
\* each was looked up under
RECURSIVE SearchLoop(_, _, _, _, _, _)
SearchLoop(db, hits, k, min_score, results, lookups) ==
  IF k > Len(hits) THEN [raised |-> FALSE, results |-> results, lookups |-> lookups]
  ELSE IF ~Passes(hits[k], min_score)
       THEN SearchLoop(db, hits, k + 1, min_score, results, lookups)
       ELSE LET key == PositionKey(hits[k].idx)
                doc_data == NotAwaited(PyDict(Hgetall(db, key)))
                seen == Append(lookups, [idx |-> hits[k].idx,
                                         score |-> hits[k].score, key |-> key])
            IN  IF ~Truthy(doc_data)
                THEN SearchLoop(db, hits, k + 1, min_score, results, seen)
                ELSE LET d == DocumentCtor(doc_data)
                     IN  IF d = <<>>
                         THEN [raised |-> TRUE, results |-> results, lookups |-> seen]
                         ELSE SearchLoop(db, hits, k + 1, min_score,
                                Append(results, [document |-> d[1],
                                                 score |-> hits[k].score]), seen)

\* line 73: the limit of a body that gives none
DefaultLimit == 5

\* line 74: the min_score of a body that gives none (0.5), in halves
DefaultMinScore == 1

\* SearchQuery(**body): the fields the body gives, the defaults for the others;
\* no field is validated
SearchQuery(body) ==
  [query |-> body.query,
   limit |-> IF "limit" \in DOMAIN body THEN body.limit ELSE DefaultLimit,
   min_score |-> IF "min_score" \in DOMAIN body THEN body.min_score
                 ELSE DefaultMinScore]

\* POST /search.  checks_k tells whether the installed faiss wrapper asserts
\* k > 0 in search (no version is pinned: newer wrappers do, older ones answer
\* k = 0 with empty arrays).  The hits and the outcome of the loop are bound
\* through singleton sets, so that each is computed once.
SearchDocuments(db, index, query, limit, min_score, checks_k) ==
  IF limit <= 0 /\ checks_k
  THEN [status |-> 500, results |-> <<>>, lookups |-> <<>>]
  ELSE CHOOSE response \in
         { IF r.raised
           THEN [status |-> 500, results |-> <<>>, lookups |-> r.lookups]
           ELSE [status |-> 200, results |-> r.results, lookups |-> r.lookups] :
             r \in { SearchLoop(db, hits, 1, min_score, <<>>, <<>>) :
                       hits \in { FaissSearch(index, Encode(query), limit) } } } :
         TRUE

\* the keys of a scan, in the order the scan yields them (never consumed:
\* the for of line 237 cannot iterate the async generator)
RECURSIVE ScanOrder(_)
ScanOrder(keys) ==
  IF keys = {} THEN <<>>
  ELSE LET k == CHOOSE k \in keys : TRUE IN <<k>> \o ScanOrder(keys \ {k})

\* lines 237-242, from key number k on: <<new_index>>, or <<>> when it raises
RECURSIVE RebuildLoop(_, _, _, _)
RebuildLoop(db, keys, k, new_index) ==
  IF k > Len(keys) THEN <<new_index>>
  ELSE LET doc_data == NotAwaited(PyDict(Hgetall(db, keys[k])))
       IN  IF ~Truthy(doc_data) THEN RebuildLoop(db, keys, k + 1, new_index)
           ELSE LET d == DocumentCtor(doc_data)
                    added == IF d = <<>> THEN <<>>
                             ELSE FaissAdd(new_index, d[1].embedding)
                IN  IF added = <<>> THEN <<>>
                    ELSE RebuildLoop(db, keys, k + 1, added[1])

\* Rebuild handing over the new index as line 236 created it
RebuildUnfilled(db) == << <<>> >>

\* lines 234-242: <<new_index>>, or <<>> when the scan or the loop raises
Rebuild(db) ==
  LET scan == AsyncGenerator(ScanOrder(DOMAIN db))
  IN  IF Iterable(scan) THEN RebuildLoop(db, scan.v, 1, <<>>) ELSE <<>>

\* line 231: whether the handler goes on to delete
Found(db, doc_id) == Truthy(NotAwaited(PyInt(Exists(db, DocKey(doc_id)))))

\* DELETE /documents/{doc_id}
DeleteDocument(db, index, doc_id) ==
  LET found == NotAwaited(PyInt(Exists(db, DocKey(doc_id))))
      db1 == Del(db, DocKey(doc_id))
      rebuilt == Rebuild(db1)
  IN  IF ~Truthy(found)
      THEN [db |-> db, index |-> index, status |-> 404, rebuilt |-> FALSE]
      ELSE IF rebuilt = <<>>
           THEN [db |-> db1, index |-> index, status |-> 500, rebuilt |-> FALSE]
           ELSE [db |-> db1, index |-> rebuilt[1], status |-> 200, rebuilt |-> TRUE]

\* GET /health: dbsize of the module-level client (the same server and db as
\* the handlers' client under the default REDIS_HOST, REDIS_PORT, REDIS_DB) and
\* ntotal of the global index
HealthCheck(db, index) ==
  [status |-> 200, documents_count |-> Dbsize(db), faiss_index_size |-> Len(index)]

----------------------------------------------------------------------------
(* Market data service (data_ingestion/api_agent/api_service.py): the module- *)
(* level dict CACHE in front of the upstream quote source.  A handler has no  *)
(* await, so it runs to its response at one reading of the clock.             *)

CACHE_TTL == 300

\* the path parameter values; the two differ by case only
Symbols == {"AAPL", "aapl"}

\* str.upper
Upper(symbol) == IF symbol = "aapl" THEN "AAPL" ELSE symbol

\* what the upstream gives one request: ticker.info ("ok", "empty", or the
\* message of the exception reading it raises) and the Close of the rows of
\* ticker.history (no row: an empty frame)
UpstreamReplies ==
  { [info |-> "ok", quote |-> q] : q \in { <<>>, <<1>>, <<2>> } } \cup
  { [info |-> i, quote |-> <<>>] : i \in {"empty", "not found", "timeout"} }

\* seconds the clock advances between requests
Ticks == {100, 200}

CacheKey(symbol) == "market_data:" \o symbol

MarketData(symbol, price, timestamp, additional_data) ==
  [symbol |-> symbol, price |-> price, timestamp |-> timestamp,
   additional_data |-> additional_data]

\* CacheValid with the age never accepted
CacheValidNever(cached, t) == FALSE

\* CacheValid with an entry of any age accepted
CacheValidAnyAge(cached, t) == cached # <<>>

\* line 226: the entry is there and younger than CACHE_TTL
CacheValid(cached, t) == cached # <<>> /\ t - cached[1].timestamp < CACHE_TTL

\* the age line 226 computes of the entry under key, -1 when there is none
CacheAge(cache, key, t) ==
  IF key \in DOMAIN cache THEN t - cache[key].timestamp ELSE -1

\* CACHE.get(cache_key): <<entry>>, or <<>> for None
CacheGet(cache, key) == IF key \in DOMAIN cache THEN << cache[key] >> ELSE <<>>

\* CACHE[cache_key] = entry
CachePut(cache, key, entry) ==
  [k \in DOMAIN cache \cup {key} |-> IF k = key THEN entry ELSE cache[k]]

\* lines 228-255 (and 345-366): the fetch from the upstream at time t, with
\* the status get_market_data answers a raised exception with (404 when its
\* message holds "not found", 500 otherwise); history and upstream count the
\* calls of ticker.history and the reads of ticker.info
Fetch(cache, t, symbol, include_additional, up) ==
  IF up.info \notin {"ok", "empty"}
  THEN [cache |-> cache, status |-> IF up.info = "not found" THEN 404 ELSE 500,
        data |-> <<>>, history |-> 0, upstream |-> 1]
  ELSE IF up.info = "empty"
  THEN [cache |-> cache, status |-> 404, data |-> <<>>, history |-> 0,
        upstream |-> 1]
  ELSE IF up.quote = <<>>
  THEN [cache |-> cache, status |-> 404, data |-> <<>>, history |-> 1,
        upstream |-> 1]
  ELSE LET market_data ==
             MarketData(Upper(symbol), up.quote[Len(up.quote)], t,
                        IF include_additional THEN "info" ELSE "None")
       IN  [cache |-> CachePut(cache, CacheKey(symbol),
                               [data |-> market_data, timestamp |-> t]),
            status |-> 200, data |-> <<market_data>>, history |-> 1,
            upstream |-> 1]

\* GET /market-data/{symbol}
GetMarketData(cache, t, symbol, include_additional, up) ==
  LET cached == CacheGet(cache, CacheKey(symbol))
  IN  IF CacheValid(cached, t)
      THEN [cache |-> cache, status |-> 200, data |-> <<cached[1].data>>,
            history |-> 0, upstream |-> 0]
      ELSE Fetch(cache, t, symbol, include_additional, up)

\* GET /market-data/{symbol}/refresh: a raised exception is answered 500
\* whatever its message
RefreshMarketData(cache, t, symbol, include_additional, up) ==
  LET r == Fetch(cache, t, symbol, include_additional, up)
  IN  IF up.info = "not found" THEN [r EXCEPT !.status = 500] ELSE r

\* the symbols parameter of a batch request, split at its commas, blanks and
\* empty items dropped (line 139, before the upper)
BatchLists ==
  { <<>>, <<"aapl">>, <<"MSFT">>, <<"aapl", "MSFT">>, <<"aapl", "aapl">> }

\* what the upstream gives one symbol of a batch request
BatchReplies ==
  { [info |-> "ok", quote |-> <<1>>], [info |-> "ok", quote |-> <<>>],
    [info |-> "empty", quote |-> <<>>], [info |-> "timeout", quote |-> <<>>] }

\* for each symbol of a batch request, whether the upstream has data for it
Gave(ups) ==
  [k \in 1..Len(ups) |-> ups[k].info = "ok" /\ ups[k].quote # <<>>]

\* BatchFailed with the results gathered so far dropped
BatchFailedDropsAll(acc) == [acc EXCEPT !.results = <<>>]

\* lines 158, 163 and 183: a symbol that gives no data is passed over, the
\* results gathered so far are kept
BatchFailed(acc) == acc

\* lines 144-183, from symbol number k on; acc holds the cache, the results
\* and the counts of ticker.history calls and ticker.info reads so far
RECURSIVE BatchLoop(_, _, _, _, _, _)
BatchLoop(t, symbol_list, include_additional, ups, k, acc) ==
  IF k > Len(symbol_list) THEN acc
  ELSE LET symbol == symbol_list[k]
           cache_key == CacheKey(symbol)
           cached == CacheGet(acc.cache, cache_key)
       IN  IF CacheValid(cached, t)
           THEN BatchLoop(t, symbol_list, include_additional, ups, k + 1,
                          [acc EXCEPT !.results = Append(@, cached[1].data)])
           ELSE IF ups[k].info # "ok"
           THEN BatchLoop(t, symbol_list, include_additional, ups, k + 1,
                          BatchFailed([acc EXCEPT !.upstream = @ + 1]))
           ELSE IF ups[k].quote = <<>>
           THEN BatchLoop(t, symbol_list, include_additional, ups, k + 1,
                          BatchFailed([acc EXCEPT !.upstream = @ + 1,
                                                  !.history = @ + 1]))
           ELSE LET market_data ==
                      MarketData(symbol, ups[k].quote[Len(ups[k].quote)], t,
                                 IF include_additional THEN "info" ELSE "None")
                IN  BatchLoop(t, symbol_list, include_additional, ups, k + 1,
                      [cache |-> CachePut(acc.cache, cache_key,
                                          [data |-> market_data, timestamp |-> t]),
                       results |-> Append(acc.results, market_data),
                       history |-> acc.history + 1,
                       upstream |-> acc.upstream + 1])

\* GET /market-data/batch
GetBatchMarketData(cache, t, symbols, include_additional, ups) ==
  LET symbol_list == [k \in 1..Len(symbols) |-> Upper(symbols[k])]
      r == BatchLoop(t, symbol_list, include_additional, ups, 1,
                     [cache |-> cache, results |-> <<>>, history |-> 0,
                      upstream |-> 0])
  IN  IF symbol_list = <<>>
      THEN [cache |-> cache, status |-> 400, data |-> <<>>, history |-> 0,
            upstream |-> 0]
      ELSE [cache |-> r.cache, status |-> IF r.results = <<>> THEN 404 ELSE 200,
            data |-> r.results, history |-> r.history, upstream |-> r.upstream]

\* what ticker.history gives a historical request: its rows, or an exception
HistoryReplies ==
  { [raised |-> FALSE, rows |-> <<>>], [raised |-> FALSE, rows |-> <<1>>],
    [raised |-> TRUE, rows |-> <<>>] }

\* line 288, for the default period and interval
HistoricalKey(symbol) == "historical_data:" \o symbol \o ":1y:1d"

HistoricalData(symbol, data) ==
  [symbol |-> symbol, data |-> data, period |-> "1y", interval |-> "1d"]

\* GET /market-data/historical/{symbol}: line 291 asks only whether an entry
\* is there
GetHistoricalData(cache, t, symbol, up) ==
  LET cache_key == HistoricalKey(symbol)
      cached_data == CacheGet(cache, cache_key)
  IN  IF cached_data # <<>>
      THEN [cache |-> cache, status |-> 200, data |-> <<cached_data[1].data>>,
            history |-> 0, upstream |-> 0]
      ELSE IF up.raised
      THEN [cache |-> cache, status |-> 500, data |-> <<>>, history |-> 1,
            upstream |-> 1]
      ELSE IF up.rows = <<>>
      THEN [cache |-> cache, status |-> 404, data |-> <<>>, history |-> 1,
            upstream |-> 1]
      ELSE LET historical_data == HistoricalData(Upper(symbol), up.rows)
           IN  [cache |-> CachePut(cache, cache_key,
                                   [data |-> historical_data, timestamp |-> t]),
                status |-> 200, data |-> <<historical_data>>, history |-> 1,
                upstream |-> 1]

NoMarketResp ==
  [op |-> "none", symbol |-> "", symbols |-> <<>>, gave |-> <<>>, at |-> 0,
   status |-> 0, data |-> <<>>, upstream |-> 0, age |-> -1]

\* the service starts with an empty cache at time 0
MarketStart ==
  /\ CACHE = [k \in {} |-> <<>>]
  /\ now = 0
  /\ history_calls = 0
  /\ m_resp = NoMarketResp

----------------------------------------------------------------------------
(* Overlapping requests of the retriever.  The handlers are coroutines on one *)
(* event loop: a handler runs without interruption from one await to the      *)
(* next, and other handlers run while it waits.  A request first has its      *)
(* dependencies resolved (get_faiss_index returns the object the global is    *)
(* bound to at that moment), then its body runs.                              *)

\* the request slots: two requests can be in flight at a time
Procs == {1, 2}

\* the add_document bodies of overlapping requests: a unit vector for either id
ConcAdds == { r \in Requests : r.embedding = Unit(1) }

\* the requests that overlap: an add and a delete of either id, the get of a,
\* and a search
ConcRequests ==
  { [op |-> "add", id |-> r.id, body |-> <<r>>] : r \in ConcAdds } \cup
  { [op |-> "delete", id |-> i, body |-> <<>>] : i \in Ids } \cup
  { [op |-> "get", id |-> "a", body |-> <<>>],
    [op |-> "search", id |-> "",
     body |-> << [query |-> "apple", limit |-> 2, min_score |-> 0] >>] }

NoRequest == [op |-> "none", id |-> "", body |-> <<>>]

\* the stage a handler starts its body in
FirstStage(op) ==
  CASE op = "add" -> "add_hset"
    [] op = "get" -> "get_run"
    [] op = "search" -> "search_run"
    [] op = "delete" -> "delete_del"

\* Resume with the awaited reply never delivered
ResumeNever(stage) == stage

\* the stage a handler resumes in once the reply it awaits has come: after
\* hset (line 153) the append, after delete (line 233) the rebuild
Resume(stage) ==
  CASE stage = "add_hset" -> "add_append"
    [] stage = "delete_del" -> "delete_rebuild"
    [] OTHER -> "idle"

NoConcResp ==
  [op |-> "none", id |-> "", status |-> 0, docs |-> <<>>, lookups |-> <<>>,
   pos |-> -1, fresh |-> FALSE, present |-> FALSE, others |-> {}]

\* no request in flight, the global bound to the index line 40 created
ConcStart ==
  /\ pc = [p \in Procs |-> "idle"]
  /\ req = [p \in Procs |-> NoRequest]
  /\ cap = [p \in Procs |-> 0]
  /\ index_objs = << <<>> >>
  /\ faiss_global = 1
  /\ c_resp = [p \in Procs |-> NoConcResp]
  /\ n_started = 0

----------------------------------------------------------------------------
(* Orchestrator (orchestrator/orchestrator_service.py): each handler passes   *)
(* its request on to one agent over HTTP and answers with what comes back.    *)

\* what comes back from the agent: a response with a status and a body that
\* is JSON or not, or no response at all (httpx raises)
AgentReplies ==
  { [answered |-> TRUE, status |-> st, json |-> j] :
      st \in {200, 404, 500}, j \in BOOLEAN } \cup
  { [answered |-> FALSE, status |-> 0, json |-> FALSE] }

\* lines 113-122 (131-140, 149-158): the client call and return
\* response.json(); the response's status is never read, an exception of the
\* call or of the decoding is answered 500.  The body is written as the
\* status of the agent response it was decoded from.
Forward(reply) ==
  IF ~reply.answered \/ ~reply.json
  THEN [status |-> 500, body |-> <<>>]
  ELSE [status |-> 200, body |-> << reply.status >>]

\* the symbols and document types of the requests
OrchSymbols == {"AAPL", "MSFT"}

DocumentTypes == {"sec_filing", "earnings_call", "news"}

NoOrchResp ==
  [op |-> "none", symbol |-> "", document_type |-> "", forwarded |-> FALSE,
   agent_status |-> 0, status |-> 0, body |-> <<>>]

\* the response to a request: 429 from the RateLimiter dependency when the
\* caller is over its rate, the handler's otherwise
OrchResponse(op, symbol, document_type, reply, limited) ==
  IF limited
  THEN [NoOrchResp EXCEPT !.op = op, !.symbol = symbol,
                          !.document_type = document_type, !.status = 429]
  ELSE [NoOrchResp EXCEPT !.op = op, !.symbol = symbol,
                          !.document_type = document_type, !.forwarded = TRUE,
                          !.agent_status = reply.status,
                          !.status = Forward(reply).status,
                          !.body = Forward(reply).body]

OrchStart ==
  /\ o_resp = NoOrchResp
  /\ n_forwarded = 0

----------------------------------------------------------------------------
(* Retriever state machine: one request at a time, each handler run to its *)
(* response *)

\* limit values a search request carries
Limits == {1, 2}

\* min_score values a search request carries, in halves: 0.0 and 0.5
MinScores == {0, 1}

\* the request bodies of POST /search: every field given, limit 0, and a body
\* of the query alone
SearchBodies ==
  { [query |-> q, limit |-> l, min_score |-> m] :
      q \in Contents, l \in Limits, m \in MinScores } \cup
  { [query |-> "apple", limit |-> 0, min_score |-> 0], [query |-> "banana"] }

\* the builds of the faiss wrapper, asserting k > 0 or not, that a search with
\* this limit tells apart
FaissChecksK(limit) == IF limit <= 0 THEN BOOLEAN ELSE {TRUE}

NoResp ==
  [op |-> "none", id |-> "", query |-> "", limit |-> 0, min_score |-> 0,
   given |-> {}, present |-> FALSE, status |-> 0, docs |-> <<>>, results |-> <<>>,
   lookups |-> <<>>, documents_count |-> 0, faiss_index_size |-> 0]

Init ==
  /\ redis_db = [k \in {} |-> EmptyHash]
  /\ faiss_index = <<>>
  /\ resp = NoResp
  /\ owner = <<>>
  /\ n_added = 0
  /\ n_scanned = 0
  /\ last_ok = [i \in Ids |-> <<>>]
  /\ touched = [i \in Ids |-> FALSE]
  /\ deleted = {}
  /\ MarketStart
  /\ ConcStart
  /\ OrchStart

DoAdd(request) ==
  LET r == AddDocument(redis_db, faiss_index, request)
      key == DocKey(request.id)
  IN  /\ Len(faiss_index) < MaxVectors
      /\ redis_db' = r.db
      /\ faiss_index' = r.index
      /\ resp' = [NoResp EXCEPT !.op = "add", !.id = request.id,
                                !.present = key \in DOMAIN redis_db,
                                !.status = r.status, !.docs = r.docs]
      /\ owner' = IF r.index # faiss_index THEN Append(owner, key) ELSE owner
      /\ n_added' = IF r.status = 200 THEN n_added + 1 ELSE n_added
      /\ last_ok' = IF r.status = 200 THEN [last_ok EXCEPT ![request.id] = <<request>>]
                    ELSE last_ok
      /\ touched' = [touched EXCEPT ![request.id] =
                       IF r.status = 200 THEN FALSE
                       ELSE @ \/ (r.db # redis_db)]
      /\ deleted' = deleted \ {request.id}
      /\ UNCHANGED <<n_scanned, marketVars, concVars, orchVars>>

DoGet(doc_id) ==
  LET r == GetDocument(redis_db, doc_id)
  IN  /\ resp' = [NoResp EXCEPT !.op = "get", !.id = doc_id,
                                !.present = DocKey(doc_id) \in DOMAIN redis_db,
                                !.status = r.status, !.docs = r.docs]
      /\ UNCHANGED <<redis_db, faiss_index, owner, n_added, n_scanned, last_ok,
                     touched, deleted, marketVars, concVars, orchVars>>

DoSearch(body, checks_k) ==
  LET query == SearchQuery(body)
      r == SearchDocuments(redis_db, faiss_index, query.query, query.limit,
                           query.min_score, checks_k)
  IN  /\ resp' = [NoResp EXCEPT !.op = "search", !.query = query.query,
                                !.limit = query.limit,
                                !.min_score = query.min_score,
                                !.given = DOMAIN body, !.status = r.status,
                                !.results = r.results, !.lookups = r.lookups]
      /\ UNCHANGED <<redis_db, faiss_index, owner, n_added, n_scanned, last_ok,
                     touched, deleted, marketVars, concVars, orchVars>>

DoDelete(doc_id) ==
  LET r == DeleteDocument(redis_db, faiss_index, doc_id)
      key == DocKey(doc_id)
      gone == key \in DOMAIN redis_db /\ key \notin DOMAIN r.db
  IN  /\ redis_db' = r.db
      /\ faiss_index' = r.index
      /\ resp' = [NoResp EXCEPT !.op = "delete", !.id = doc_id,
                                !.present = key \in DOMAIN redis_db,
                                !.status = r.status]
      /\ owner' = IF r.rebuilt THEN ScanOrder(DOMAIN r.db) ELSE owner
      /\ n_added' = IF r.rebuilt THEN 0 ELSE n_added
      /\ n_scanned' = IF r.rebuilt THEN Len(r.index) ELSE n_scanned
      /\ last_ok' = IF gone THEN [last_ok EXCEPT ![doc_id] = <<>>] ELSE last_ok
      /\ touched' = IF gone THEN [touched EXCEPT ![doc_id] = FALSE] ELSE touched
      /\ deleted' = IF gone THEN deleted \cup {doc_id} ELSE deleted
      /\ UNCHANGED <<marketVars, concVars, orchVars>>

DoHealth ==
  LET r == HealthCheck(redis_db, faiss_index)
  IN  /\ resp' = [NoResp EXCEPT !.op = "health", !.status = r.status,
                                !.documents_count = r.documents_count,
                                !.faiss_index_size = r.faiss_index_size]
      /\ UNCHANGED <<redis_db, faiss_index, owner, n_added, n_scanned, last_ok,
                     touched, deleted, marketVars, concVars, orchVars>>

Next ==
  \/ \E request \in Requests : DoAdd(request)
  \/ \E doc_id \in Ids : DoGet(doc_id)
  \/ \E body \in SearchBodies :
       \E checks_k \in FaissChecksK(SearchQuery(body).limit) : DoSearch(body, checks_k)
  \/ \E doc_id \in Ids : DoDelete(doc_id)
  \/ DoHealth

Spec == Init /\ [][Next]_vars

----------------------------------------------------------------------------
(* Market data service: one request at a time, the clock advancing between *)
(* requests *)

\* the program as it starts
MarketInit == Init

DoMarketData(symbol, include_additional, up) ==
  LET r == GetMarketData(CACHE, now, symbol, include_additional, up)
  IN  /\ history_calls + r.history <= MaxFetches
      /\ CACHE' = r.cache
      /\ history_calls' = history_calls + r.history
      /\ m_resp' = [NoMarketResp EXCEPT !.op = "get", !.symbol = symbol,
                                         !.at = now, !.status = r.status,
                                         !.data = r.data,
                                         !.upstream = r.upstream,
                                         !.age = CacheAge(CACHE,
                                                   CacheKey(symbol), now)]
      /\ UNCHANGED <<now, retrieverVars, concVars, orchVars>>

DoRefresh(symbol, include_additional, up) ==
  LET r == RefreshMarketData(CACHE, now, symbol, include_additional, up)
  IN  /\ history_calls + r.history <= MaxFetches
      /\ CACHE' = r.cache
      /\ history_calls' = history_calls + r.history
      /\ m_resp' = [NoMarketResp EXCEPT !.op = "refresh", !.symbol = symbol,
                                         !.at = now, !.status = r.status,
                                         !.data = r.data,
                                         !.upstream = r.upstream]
      /\ UNCHANGED <<now, retrieverVars, concVars, orchVars>>

DoBatch(symbols, include_additional, ups) ==
  LET r == GetBatchMarketData(CACHE, now, symbols, include_additional, ups)
  IN  /\ history_calls + r.history <= MaxFetches
      /\ CACHE' = r.cache
      /\ history_calls' = history_calls + r.history
      /\ m_resp' = [NoMarketResp EXCEPT !.op = "batch", !.symbols = symbols,
                                         !.gave = Gave(ups), !.at = now,
                                         !.status = r.status, !.data = r.data,
                                         !.upstream = r.upstream]
      /\ UNCHANGED <<now, retrieverVars, concVars, orchVars>>

DoHistorical(symbol, up) ==
  LET r == GetHistoricalData(CACHE, now, symbol, up)
  IN  /\ history_calls + r.history <= MaxFetches
      /\ CACHE' = r.cache
      /\ history_calls' = history_calls + r.history
      /\ m_resp' = [NoMarketResp EXCEPT !.op = "hist", !.symbol = symbol,
                                         !.at = now, !.status = r.status,
                                         !.data = r.data,
                                         !.upstream = r.upstream,
                                         !.age = CacheAge(CACHE,
                                                   HistoricalKey(symbol), now)]
      /\ UNCHANGED <<now, retrieverVars, concVars, orchVars>>

\* POST /cache/clear
DoClearCache ==
  /\ CACHE' = [k \in {} |-> <<>>]
  /\ m_resp' = [NoMarketResp EXCEPT !.op = "clear", !.at = now, !.status = 200]
  /\ UNCHANGED <<now, history_calls, retrieverVars, concVars, orchVars>>

\* time passes between requests
Tick(d) ==
  /\ now + d <= MaxTime
  /\ now' = now + d
  /\ UNCHANGED <<CACHE, history_calls, m_resp, retrieverVars, concVars, orchVars>>

MarketNext ==
  \/ \E symbol \in Symbols, include_additional \in BOOLEAN, up \in UpstreamReplies :
       DoMarketData(symbol, include_additional, up)
  \/ \E symbol \in Symbols, include_additional \in BOOLEAN, up \in UpstreamReplies :
       DoRefresh(symbol, include_additional, up)
  \/ DoClearCache
  \/ \E d \in Ticks : Tick(d)

MarketSpec == MarketInit /\ [][MarketNext]_vars

\* the batch endpoint on its own
BatchNext ==
  \/ \E symbols \in BatchLists, include_additional \in BOOLEAN :
       \E ups \in [1..Len(symbols) -> BatchReplies] :
         DoBatch(symbols, include_additional, ups)
  \/ DoClearCache
  \/ \E d \in Ticks : Tick(d)

BatchSpec == MarketInit /\ [][BatchNext]_vars

\* the historical endpoint beside the single-symbol one
HistoricalNext ==
  \/ \E symbol \in Symbols, up \in HistoryReplies : DoHistorical(symbol, up)
  \/ \E symbol \in Symbols, include_additional \in BOOLEAN, up \in UpstreamReplies :
       DoMarketData(symbol, include_additional, up)
  \/ DoClearCache
  \/ \E d \in Ticks : Tick(d)

HistoricalSpec == MarketInit /\ [][HistoricalNext]_vars

----------------------------------------------------------------------------
(* Orchestrator: one request at a time *)

OrchInit == Init

\* GET /market-data/{symbol}
OrchMarketData(symbol, reply, limited) ==
  LET response == OrchResponse("market-data", symbol, "", reply, limited)
  IN  /\ response.forwarded => n_forwarded < MaxForwards
      /\ o_resp' = response
      /\ n_forwarded' = IF response.forwarded THEN n_forwarded + 1
                        ELSE n_forwarded
      /\ UNCHANGED <<retrieverVars, marketVars, concVars>>

\* POST /scrape
OrchScrape(symbol, document_type, reply, limited) ==
  LET response == OrchResponse("scrape", symbol, document_type, reply, limited)
  IN  /\ response.forwarded => n_forwarded < MaxForwards
      /\ o_resp' = response
      /\ n_forwarded' = IF response.forwarded THEN n_forwarded + 1
                        ELSE n_forwarded
      /\ UNCHANGED <<retrieverVars, marketVars, concVars>>

\* POST /search
OrchSearch(reply, limited) ==
  LET response == OrchResponse("search", "", "", reply, limited)
  IN  /\ response.forwarded => n_forwarded < MaxForwards
      /\ o_resp' = response
      /\ n_forwarded' = IF response.forwarded THEN n_forwarded + 1
                        ELSE n_forwarded
      /\ UNCHANGED <<retrieverVars, marketVars, concVars>>

OrchNext ==
  \/ \E symbol \in OrchSymbols, reply \in AgentReplies, limited \in BOOLEAN :
       OrchMarketData(symbol, reply, limited)
  \/ \E symbol \in OrchSymbols, document_type \in DocumentTypes,
        reply \in AgentReplies, limited \in BOOLEAN :
       OrchScrape(symbol, document_type, reply, limited)
  \/ \E reply \in AgentReplies, limited \in BOOLEAN : OrchSearch(reply, limited)

OrchSpec == OrchInit /\ [][OrchNext]_vars

----------------------------------------------------------------------------
(* Retriever state machine with overlapping requests *)

\* the program as it starts
ConcInit == Init

\* the positions of the index that adds of key appended
PositionsOf(own, key) == {p \in 1..Len(own) : own[p] = key}

\* where the handlers other than p's stand
Others(p) == {pc[q] : q \in Procs \ {p}}

\* history: the responses, with the adds of id that wait for their append
\* marked as no longer the only request at work on id
Disturb(responses, p, id) ==
  [q \in Procs |->
     IF q # p /\ pc[q] = "add_append" /\ req[q].id = id
     THEN [responses[q] EXCEPT !.fresh = FALSE] ELSE responses[q]]

\* what a step of p's handler leaves alone
ConcFrame ==
  UNCHANGED <<resp, n_added, n_scanned, touched, deleted, marketVars, orchVars>>

\* a request arrives, takes the first free slot, and its dependencies are
\* resolved
Begin(p, request) ==
  /\ pc[p] = "idle"
  /\ \A q \in Procs : q < p => pc[q] # "idle"
  /\ n_started < MaxRequests
  /\ pc' = [pc EXCEPT ![p] = FirstStage(request.op)]
  /\ req' = [req EXCEPT ![p] = request]
  /\ cap' = [cap EXCEPT ![p] = IF request.op \in {"add", "search"}
                                THEN faiss_global ELSE 0]
  /\ c_resp' = [c_resp EXCEPT ![p] = NoConcResp]
  /\ n_started' = n_started + 1
  /\ UNCHANGED <<redis_db, faiss_index, owner, last_ok, index_objs, faiss_global>>
  /\ ConcFrame

\* add_document up to the await of line 153: the hset is executed
AddHset(p) ==
  LET r == AddDocument(redis_db, index_objs[cap[p]], req[p].body[1])
  IN  /\ pc[p] = "add_hset"
      /\ redis_db' = r.db
      /\ c_resp' = [Disturb(c_resp, p, req[p].id) EXCEPT ![p].fresh =
                      DocKey(req[p].id) \notin DOMAIN redis_db]
      /\ pc' = [pc EXCEPT ![p] = Resume(pc[p])]
      /\ UNCHANGED <<faiss_index, owner, last_ok, req, cap, index_objs,
                     faiss_global, n_started>>
      /\ ConcFrame

\* add_document from line 154 on: the append to the object it was given
AddAppend(p) ==
  LET index == index_objs[cap[p]]
      r == AddDocument(redis_db, index, req[p].body[1])
  IN  /\ pc[p] = "add_append"
      /\ index_objs' = [index_objs EXCEPT ![cap[p]] = r.index]
      /\ faiss_index' = index_objs'[faiss_global]
      /\ owner' = IF r.status = 200 /\ cap[p] = faiss_global
                   THEN Append(owner, DocKey(req[p].id)) ELSE owner
      /\ last_ok' = IF r.status = 200
                     THEN [last_ok EXCEPT ![req[p].id] = req[p].body]
                     ELSE last_ok
      /\ c_resp' = [c_resp EXCEPT ![p] =
                      [@ EXCEPT !.op = "add", !.id = req[p].id,
                                !.status = r.status, !.docs = r.docs,
                                !.pos = IF r.status = 200 THEN Len(index) ELSE -1,
                                !.fresh = @ /\ PositionsOf(owner, DocKey(req[p].id)) = {},
                                !.others = Others(p)]]
      /\ pc' = [pc EXCEPT ![p] = Resume(pc[p])]
      /\ UNCHANGED <<redis_db, req, cap, faiss_global, n_started>>
      /\ ConcFrame

\* get_document: the hgetall is executed and its reply decoded
GetRun(p) ==
  LET r == GetDocument(redis_db, req[p].id)
  IN  /\ pc[p] = "get_run"
      /\ c_resp' = [c_resp EXCEPT ![p] =
                      [@ EXCEPT !.op = "get", !.id = req[p].id,
                                !.status = r.status, !.docs = r.docs,
                                !.others = Others(p)]]
      /\ pc' = [pc EXCEPT ![p] = Resume(pc[p])]
      /\ UNCHANGED <<redis_db, faiss_index, owner, last_ok, req, cap, index_objs,
                     faiss_global, n_started>>
      /\ ConcFrame

\* search_documents: the body has no await
SearchRun(p) ==
  LET query == SearchQuery(req[p].body[1])
      r == SearchDocuments(redis_db, index_objs[cap[p]], query.query,
                           query.limit, query.min_score, TRUE)
  IN  /\ pc[p] = "search_run"
      /\ c_resp' = [c_resp EXCEPT ![p] =
                      [@ EXCEPT !.op = "search", !.status = r.status,
                                !.lookups = r.lookups, !.others = Others(p)]]
      /\ pc' = [pc EXCEPT ![p] = Resume(pc[p])]
      /\ UNCHANGED <<redis_db, faiss_index, owner, last_ok, req, cap, index_objs,
                     faiss_global, n_started>>
      /\ ConcFrame

\* delete_document up to the await of line 233: the delete is executed
DeleteDel(p) ==
  LET key == DocKey(req[p].id)
  IN  /\ pc[p] = "delete_del"
      /\ IF Found(redis_db, req[p].id)
         THEN /\ redis_db' = Del(redis_db, key)
              /\ last_ok' = IF key \in DOMAIN redis_db
                             THEN [last_ok EXCEPT ![req[p].id] = <<>>] ELSE last_ok
              /\ pc' = [pc EXCEPT ![p] = Resume(pc[p])]
              /\ c_resp' = [Disturb(c_resp, p, req[p].id) EXCEPT ![p].present =
                              key \in DOMAIN redis_db]
         ELSE /\ c_resp' = [c_resp EXCEPT ![p] =
                              [@ EXCEPT !.op = "delete", !.id = req[p].id,
                                        !.status = 404, !.others = Others(p)]]
              /\ pc' = [pc EXCEPT ![p] = "idle"]
              /\ UNCHANGED <<redis_db, last_ok>>
      /\ UNCHANGED <<faiss_index, owner, req, cap, index_objs, faiss_global,
                     n_started>>
      /\ ConcFrame

\* delete_document from line 234 on: the rebuild, and line 243 binding the
\* global to the new index
DeleteRebuild(p) ==
  LET rebuilt == Rebuild(redis_db)
  IN  /\ pc[p] = "delete_rebuild"
      /\ IF rebuilt = <<>>
         THEN UNCHANGED <<index_objs, faiss_global, faiss_index, owner>>
         ELSE /\ index_objs' = Append(index_objs, rebuilt[1])
              /\ faiss_global' = Len(index_objs) + 1
              /\ faiss_index' = rebuilt[1]
              /\ owner' = SubSeq(ScanOrder(DOMAIN redis_db), 1, Len(rebuilt[1]))
      /\ c_resp' = [c_resp EXCEPT ![p] =
                      [@ EXCEPT !.op = "delete", !.id = req[p].id,
                                !.status = IF rebuilt = <<>> THEN 500 ELSE 200,
                                !.others = Others(p)]]
      /\ pc' = [pc EXCEPT ![p] = Resume(pc[p])]
      /\ UNCHANGED <<redis_db, last_ok, req, cap, n_started>>
      /\ ConcFrame

\* a step of the handler in slot p
Step(p) ==
  \/ AddHset(p)
  \/ AddAppend(p)
  \/ GetRun(p)
  \/ SearchRun(p)
  \/ DeleteDel(p)
  \/ DeleteRebuild(p)

ConcNext ==
  \/ \E p \in Procs, request \in ConcRequests : Begin(p, request)
  \/ \E p \in Procs : AddHset(p)
  \/ \E p \in Procs : AddAppend(p)
  \/ \E p \in Procs : GetRun(p)
  \/ \E p \in Procs : SearchRun(p)
  \/ \E p \in Procs : DeleteDel(p)
  \/ \E p \in Procs : DeleteRebuild(p)

ConcSpec == ConcInit /\ [][ConcNext]_vars

ConcFairNext ==
  \/ \E p \in Procs, request \in ConcRequests :
       n_started < MaxFairRequests /\ Begin(p, request)
  \/ \E p \in Procs : AddHset(p)
  \/ \E p \in Procs : AddAppend(p)
  \/ \E p \in Procs : GetRun(p)
  \/ \E p \in Procs : SearchRun(p)
  \/ \E p \in Procs : DeleteDel(p)
  \/ \E p \in Procs : DeleteRebuild(p)

\* the event loop runs every handler that can run, and Redis answers every
\* command
ConcFair ==
  ConcInit /\ [][ConcFairNext]_vars /\ \A p \in Procs : WF_vars(Step(p))

----------------------------------------------------------------------------
(* Claims *)

\* the embedding a stored hash holds
StoredEmbedding(key) == JsonLoadsList(redis_db[key].embedding.v)

\* C1: delete_document of a stored id succeeds, and after it the index size
\* health reports equals the documents count it reports.
C1_HealthAfterDelete ==
  (resp.op = "delete" /\ resp.present) =>
    /\ resp.status = 200
    /\ LET h == HealthCheck(redis_db, faiss_index)
       IN  h.faiss_index_size = h.documents_count

\* C2: delete_document of a stored id succeeds; from then on, until the id is
\* added again, get_document of it answers 404 and no search returns it; and
\* a search over a store emptied by deletes answers 200 with an empty list.
C2_DeletedStaysGone ==
  /\ (resp.op = "delete" /\ resp.present) => resp.status = 200
  /\ (resp.op = "get" /\ resp.id \in deleted) => resp.status = 404
  /\ resp.op = "search" =>
       /\ \A k \in 1..Len(resp.results) : resp.results[k].document.id \notin deleted
       /\ (deleted # {} /\ DOMAIN redis_db = {}) =>
            (resp.status = 200 /\ resp.results = <<>>)

\* C3: delete_document of an id that is not stored answers 404 and changes
\* neither the store nor the index.
C3_DeleteAbsentNotFound ==
  [][(resp'.op = "delete" /\ ~resp'.present) =>
       (resp'.status = 404 /\ redis_db' = redis_db /\ faiss_index' = faiss_index)]_vars

\* C4: a search answers with at most limit results, each of score >= min_score;
\* the same holds of the hits it goes on to resolve (line 207), which are all
\* its results can come from.
C4_SearchBounded ==
  resp.op = "search" =>
    /\ Len(resp.results) <= resp.limit
    /\ \A k \in 1..Len(resp.results) : 2 * resp.results[k].score >= resp.min_score
    /\ Len(resp.results) <= Len(resp.lookups)
    /\ Len(resp.lookups) <= resp.limit
    /\ \A k \in 1..Len(resp.lookups) : 2 * resp.lookups[k].score >= resp.min_score

\* C4 witness: a search answered while the index held more vectors than limit,
\* one of them scoring below min_score
C4_Witness ==
  /\ resp.op = "search" /\ resp.status = 200
  /\ Len(faiss_index) > resp.limit
  /\ \E p \in 1..Len(faiss_index) :
       2 * Dot(Encode(resp.query), faiss_index[p]) < resp.min_score

\* C5: every hit a search resolves is looked up under the key of the document
\* whose add appended the vector at that position.
C5_PositionResolved ==
  resp.op = "search" =>
    \A k \in 1..Len(resp.lookups) :
      resp.lookups[k].key = owner[resp.lookups[k].idx + 1]

\* C6: an add_document that fails leaves the store and the index as they were.
C6_RejectedBeforeMutation ==
  [][(resp'.op = "add" /\ resp'.status # 200) =>
       (redis_db' = redis_db /\ faiss_index' = faiss_index)]_vars

\* C7: the index holds as many vectors as add_document calls succeeded since
\* the last rebuild plus the records that rebuild scanned.
C7_IndexCount == Len(faiss_index) = n_added + n_scanned

\* C7 witness: the index is full of added vectors and a delete_document that
\* removed a record has just answered
C7_Witness ==
  /\ n_added = MaxVectors
  /\ resp.op = "delete" /\ resp.present

\* C8: every vector of the index and every stored embedding has unit norm.
C8_UnitNorm ==
  /\ \A p \in 1..Len(faiss_index) : NormSq(faiss_index[p]) = 1
  /\ \A key \in DOMAIN redis_db : NormSq(StoredEmbedding(key)) = 1

\* the request of the latest successful add of id, when it carried a unit
\* embedding of Dim components and nothing wrote the record since
Fresh(id) ==
  /\ last_ok[id] # <<>>
  /\ ~touched[id]
  /\ last_ok[id][1].embedding # <<>>
  /\ Len(last_ok[id][1].embedding) = Dim
  /\ NormSq(last_ok[id][1].embedding) = 1

\* C9: get_document after an add_document with an explicit unit embedding of
\* the index dimension returns the added id, content, metadata and embedding.
C9_RoundTrip ==
  (resp.op = "get" /\ Fresh(resp.id)) =>
    (resp.status = 200 /\ resp.docs = last_ok[resp.id])

\* C9 witness: such a get_document, of a document with metadata
C9_Witness ==
  /\ resp.op = "get" /\ Fresh(resp.id)
  /\ last_ok[resp.id][1].metadata # <<>>

\* C10: the store holds one record per id, and get_document returns the
\* document of the latest successful add_document of that id.
C10_LatestAddWins ==
  /\ DOMAIN redis_db \subseteq {DocKey(i) : i \in Ids}
  /\ (resp.op = "get" /\ resp.status = 200) =>
       /\ last_ok[resp.id] # <<>>
       /\ resp.docs = << Embedded(last_ok[resp.id][1]) >>

\* the record a stored hash decodes to
StoredDocument(db, key) ==
  Document(db[key].id.v, db[key].content.v, JsonLoadsDict(db[key].metadata.v),
           JsonLoadsList(db[key].embedding.v))

\* C11: an add_document of an id already stored appends one vector and removes
\* none; after the next delete_document of a stored id, every document whose
\* latest add succeeded has exactly one vector in the index, its stored embedding.
C11_OverwriteThenRebuild ==
  [][/\ (resp'.op = "add" /\ resp'.present /\ resp'.status = 200) =>
          /\ Len(faiss_index') = Len(faiss_index) + 1
          /\ SubSeq(faiss_index', 1, Len(faiss_index)) = faiss_index
     /\ (resp'.op = "delete" /\ resp'.present) =>
          \A i \in Ids :
            (last_ok'[i] # <<>> /\ ~touched'[i]) =>
              \E p \in 1..Len(faiss_index') :
                /\ PositionsOf(owner', DocKey(i)) = {p}
                /\ faiss_index'[p] = StoredDocument(redis_db', DocKey(i)).embedding
    ]_vars

\* C12: the index a search reads, whatever delete_document is in flight, is a
\* complete one: it holds the vector of every document whose add_document
\* succeeded and that is still stored, never only part of them; and it is the
\* object the global is bound to or one it was bound to before.
C12_NoPartialIndex ==
  [][\A p \in Procs :
       (pc[p] = "search_run" /\ pc'[p] = "idle") =>
         LET seen == index_objs[cap[p]]
         IN  /\ cap[p] <= faiss_global
             /\ \A i \in Ids :
                  (last_ok[i] # <<>> /\ DocKey(i) \in DOMAIN redis_db) =>
                    \E k \in 1..Len(seen) :
                      seen[k] = Embedded(last_ok[i][1]).embedding
             /\ c_resp'[p].lookups =
                  SearchDocuments(redis_db, seen, "apple", 2, 0, TRUE).lookups
    ]_vars

\* C12 witness: a search answered while a delete_document stood between its
\* delete and its rebuild, the store still holding an added document
C12_Witness ==
  \E p \in Procs :
    /\ c_resp[p].op = "search" /\ pc[p] = "idle"
    /\ "delete_rebuild" \in c_resp[p].others
    /\ c_resp[p].lookups # <<>>
    /\ \E q \in Procs \ {p} : pc[q] = "delete_rebuild"
    /\ \E i \in Ids : last_ok[i] # <<>> /\ DocKey(i) \in DOMAIN redis_db

\* C13: when two overlapping add_document calls of two ids both succeed, each
\* id not stored when written, not indexed when appended and under no other
\* request meanwhile, get_document returns either document, either has
\* exactly one vector in the index, at the position that was the index size
\* before its append, and that position resolves (line 208) to its record.
C13_ConcurrentAdds ==
  \A p, q \in Procs :
    ( /\ p # q /\ pc[p] = "idle" /\ pc[q] = "idle"
      /\ c_resp[p].op = "add" /\ c_resp[q].op = "add"
      /\ c_resp[p].status = 200 /\ c_resp[q].status = 200
      /\ c_resp[p].fresh /\ c_resp[q].fresh
      /\ c_resp[p].id # c_resp[q].id
      /\ "add_append" \in c_resp[p].others ) =>
      LET key == DocKey(c_resp[p].id)
          got == GetDocument(redis_db, c_resp[p].id)
      IN  /\ got.status = 200 /\ got.docs = c_resp[p].docs
          /\ PositionsOf(owner, key) = {c_resp[p].pos + 1}
          /\ faiss_index[c_resp[p].pos + 1] = c_resp[p].docs[1].embedding
          /\ PositionKey(c_resp[p].pos) = key

\* C14: an add_document whose embedding is all zero fails, and no stored
\* embedding and no vector of the index is all zero.
C14_ZeroNormRejected ==
  /\ (resp.op = "add" /\ resp.status = 200) => NormSq(resp.docs[1].embedding) # 0
  /\ \A p \in 1..Len(faiss_index) : NormSq(faiss_index[p]) # 0
  /\ \A key \in DOMAIN redis_db : NormSq(StoredEmbedding(key)) # 0

\* C15: the results of a search are in non-increasing order of score: the hits
\* the index returns are, and the loop resolves them in that order.
C15_ScoreOrder ==
  resp.op = "search" =>
    LET hits == FaissSearch(faiss_index, Encode(resp.query), resp.limit)
    IN  /\ \A j, k \in 1..Len(resp.results) :
             j < k => resp.results[j].score >= resp.results[k].score
        /\ \A j, k \in 1..Len(hits) : j < k => hits[j].score >= hits[k].score
        /\ \A k \in 1..Len(resp.lookups) :
             /\ resp.lookups[k].score = hits[k].score
             /\ resp.lookups[k].idx = hits[k].idx

\* C15 witness: a search that resolved a hit, over an index holding vectors of
\* different scores, with limit 2
C15_Witness ==
  /\ resp.op = "search" /\ resp.limit = 2 /\ resp.lookups # <<>>
  /\ \E p, q \in 1..Len(faiss_index) :
       Dot(Encode(resp.query), faiss_index[p]) < Dot(Encode(resp.query), faiss_index[q])

\* C16: with a = e1 and b = eDim added and stored, the search for a's text with
\* limit 2 answers [a, b] for min_score 0.0 and [a] for min_score 0.5, a first
\* with score 1.
C16_TwoDocuments ==
  ( /\ resp.op = "search" /\ resp.query = "apple" /\ resp.limit = 2
    /\ faiss_index = <<Unit(1), Unit(Dim)>>
    /\ owner = <<DocKey("a"), DocKey("b")>>
    /\ \A i \in Ids : last_ok[i] # <<>> /\ ~touched[i] ) =>
    /\ resp.status = 200
    /\ [k \in 1..Len(resp.results) |-> resp.results[k].document.id] =
         (IF resp.min_score = 0 THEN <<"a", "b">> ELSE <<"a">>)
    /\ resp.results[1].score = 1

\* C17: a search with limit <= 0 is answered with a client error; a body that
\* gives no limit is searched with limit 5, one that gives no min_score with
\* min_score 0.5.
C17_LimitValidated ==
  resp.op = "search" =>
    /\ resp.limit <= 0 => resp.status \in 400..499
    /\ "limit" \notin resp.given => resp.limit = 5
    /\ "min_score" \notin resp.given => resp.min_score = 1

\* C18: get_document changes neither the store nor the index; it answers 200
\* with the stored record when the id is stored and 404 when it is not.
C18_GetReadOnly ==
  [][resp'.op = "get" =>
       /\ redis_db' = redis_db
       /\ faiss_index' = faiss_index
       /\ resp'.present =>
            /\ resp'.status = 200
            /\ resp'.docs = << StoredDocument(redis_db, DocKey(resp'.id)) >>
       /\ ~resp'.present => (resp'.status = 404 /\ resp'.docs = <<>>)
    ]_vars

\* C18 witness: a get_document of an id that is not stored, answered while the
\* store and the index hold another document
C18_Witness ==
  /\ resp.op = "get" /\ ~resp.present /\ resp.status = 404
  /\ DOMAIN redis_db # {}
  /\ faiss_index # <<>>

\* C20: a GET /market-data/{symbol} that finds an entry of its symbol younger
\* than CACHE_TTL answers 200 with the cached data, calls the upstream history
\* no further time and leaves the cache as it is.
C20_CacheHit ==
  [][LET key == CacheKey(m_resp'.symbol)
     IN  ( /\ m_resp'.op = "get"
           /\ key \in DOMAIN CACHE
           /\ now - CACHE[key].timestamp < CACHE_TTL ) =>
           /\ m_resp'.status = 200
           /\ m_resp'.data = << CACHE[key].data >>
           /\ history_calls' = history_calls
           /\ CACHE' = CACHE
    ]_vars

\* C20 witness: a second request of a symbol, 200 seconds after the first
\* cached its answer, answered with the data of that time after one call of
\* history in all
C20_Witness ==
  /\ m_resp.op = "get" /\ m_resp.status = 200 /\ m_resp.at = now
  /\ history_calls = 1
  /\ m_resp.data[1].timestamp = now - 200
  /\ CacheKey(m_resp.symbol) \in DOMAIN CACHE

\* C19: every request that has begun is eventually answered, with a success or
\* an error status, whatever other request overlaps it.
C19_EveryRequestCompletes ==
  \A p \in Procs :
    (pc[p] # "idle") ~> (pc[p] = "idle" /\ c_resp[p].status \in {200, 404, 500})

\* C19 witness: a delete_document answered after an add_document of the same
\* id began and before it appended
C19_Witness ==
  \E p, q \in Procs :
    /\ pc[p] = "idle" /\ c_resp[p].op = "delete" /\ c_resp[p].status # 0
    /\ pc[q] = "add_append" /\ req[q].id = c_resp[p].id
    /\ "add_append" \in c_resp[p].others

\* C21: a GET /market-data/{symbol} that finds an entry of its symbol older
\* than CACHE_TTL does not answer with the cached value: it reads the upstream;
\* when the upstream gives a quote it answers 200 with data of this moment and
\* the entry becomes that data with this moment's timestamp; when the upstream
\* gives none it answers an error.
C21_CacheExpiry ==
  [][LET key == CacheKey(m_resp'.symbol)
     IN  ( /\ m_resp'.op = "get" /\ now' = now
           /\ key \in DOMAIN CACHE
           /\ now - CACHE[key].timestamp > CACHE_TTL ) =>
           /\ m_resp'.data # << CACHE[key].data >>
           /\ m_resp'.upstream = 1
           /\ \/ /\ m_resp'.status = 200
                 /\ m_resp'.data[1].timestamp = now
                 /\ history_calls' = history_calls + 1
                 /\ CACHE'[key] = [data |-> m_resp'.data[1], timestamp |-> now]
              \/ /\ m_resp'.status \in {404, 500}
                 /\ m_resp'.data = <<>>
    ]_vars

\* C21 witness: a request answered 400 seconds after another request cached
\* the symbol, with a quote other than the cached one, the entry replaced
C21_Witness ==
  LET key == CacheKey(m_resp.symbol)
  IN  /\ m_resp.op = "get" /\ m_resp.status = 200 /\ m_resp.at = now
      /\ m_resp.age = 400
      /\ history_calls = 2
      /\ m_resp.data[1].price = 2
      /\ CACHE[key] = [data |-> m_resp.data[1], timestamp |-> 400]

\* whether symbol number k of a batch request can be fetched at time t: its
\* entry in the cache is younger than CACHE_TTL, or the upstream has data for
\* it or had for an earlier occurrence of it in the request
Fetchable(cache, t, symbols, gave, k) ==
  \/ CacheValid(CacheGet(cache, CacheKey(Upper(symbols[k]))), t)
  \/ \E j \in 1..k : Upper(symbols[j]) = Upper(symbols[k]) /\ gave[j]

\* C22: a batch request answers 200 with one item for each symbol that can be
\* fetched, in the order of the request, and none for the others; it answers
\* 404 only when no symbol can be fetched (400 when it names no symbol); and
\* the cache gains or changes an entry only for a symbol the upstream had data
\* for.
C22_BatchSkipsFailures ==
  [][(m_resp'.op = "batch" /\ now' = now) =>
       LET symbols == m_resp'.symbols
           yes == { k \in 1..Len(symbols) :
                      Fetchable(CACHE, now, symbols, m_resp'.gave, k) }
           expected == SelectSeq([k \in 1..Len(symbols) |-> k],
                                 LAMBDA k : k \in yes)
       IN  /\ m_resp'.status = IF symbols = <<>> THEN 400
                               ELSE IF yes = {} THEN 404 ELSE 200
           /\ [k \in 1..Len(m_resp'.data) |-> m_resp'.data[k].symbol] =
                [k \in 1..Len(expected) |-> Upper(symbols[expected[k]])]
           /\ \A key \in DOMAIN CACHE' :
                \/ key \in DOMAIN CACHE /\ CACHE'[key] = CACHE[key]
                \/ \E k \in 1..Len(symbols) :
                     key = CacheKey(Upper(symbols[k])) /\ m_resp'.gave[k]
           /\ DOMAIN CACHE \subseteq DOMAIN CACHE'
    ]_vars

\* C22 witness: a batch request of two symbols, the upstream without data for
\* the first, answered 200 with the second alone, the first not in the cache
C22_Witness ==
  /\ m_resp.op = "batch" /\ m_resp.at = now
  /\ m_resp.symbols = <<"aapl", "MSFT">>
  /\ m_resp.gave = <<FALSE, TRUE>>
  /\ m_resp.status = 200
  /\ Len(m_resp.data) = 1 /\ m_resp.data[1].symbol = "MSFT"
  /\ DOMAIN CACHE = {CacheKey("MSFT")}

\* C30: the single-symbol and the historical endpoint answer from the cache
\* only with an entry younger than CACHE_TTL: a request that finds an entry
\* of age CACHE_TTL or more reads the upstream.
C30_NoStaleEntry ==
  [][(m_resp'.op \in {"get", "hist"} /\ now' = now /\ m_resp'.age >= CACHE_TTL) =>
       m_resp'.upstream = 1
    ]_vars

\* C23: when the agent answers a forwarded GET /market-data/{symbol} or POST
\* /scrape with status 500, the orchestrator answers its caller with 500.
C23_AgentErrorPassedOn ==
  ( /\ o_resp.op \in {"market-data", "scrape"}
    /\ o_resp.forwarded
    /\ o_resp.agent_status = 500 ) => o_resp.status = 500

\* the vectors a rebuild gives the index: the stored embedding of every record
\* of the store, in scan order
StoreVectors(db) ==
  [k \in 1..Len(ScanOrder(DOMAIN db)) |->
     JsonLoadsList(db[ScanOrder(DOMAIN db)[k]].embedding.v)]

\* C24: after a delete_document that removed a record, the index holds the
\* stored embedding of every record left in the store, one vector each, in
\* scan order, and nothing else.
C24_IndexIsStore ==
  (resp.op = "delete" /\ resp.present) => faiss_index = StoreVectors(redis_db)

\* C25: an add_document that fails after writing the record answers an error
\* and leaves the document one that get_document returns and no search does;
\* after the next delete_document that removed a record, the index holds the
\* vector of every such document still stored.
C25_StoredNotYetSearchable ==
  /\ (resp.op = "add" /\ resp.status # 200 /\ touched[resp.id]) =>
       /\ GetDocument(redis_db, resp.id).status = 200
       /\ \A body \in SearchBodies :
            LET found == SearchDocuments(redis_db, faiss_index, body.query,
                                         SearchQuery(body).limit,
                                         SearchQuery(body).min_score, FALSE)
            IN  \A k \in 1..Len(found.results) :
                  found.results[k].document.id # resp.id
  /\ (resp.op = "delete" /\ resp.present) =>
       \A i \in Ids :
         (touched[i] /\ DocKey(i) \in DOMAIN redis_db) =>
           \E p \in 1..Len(faiss_index) :
             faiss_index[p] = StoredEmbedding(DocKey(i))

\* C26: a search with a positive limit that meets a position it cannot
\* resolve (the index holds fewer vectors than limit, or no record is stored
\* under the key of a hit) answers 200, with the results it could resolve.
C26_UnresolvedSkipped ==
  ( /\ resp.op = "search" /\ resp.limit > 0
    /\ \/ Len(faiss_index) < resp.limit
       \/ \E k \in 1..Len(resp.lookups) :
            resp.lookups[k].key \notin DOMAIN redis_db ) =>
    resp.status = 200

\* C29: a delete_document that answers an error leaves the store and the index
\* as they were, and no record is ever gone from the store while the index
\* still holds the vector added for it.
C29_DeleteAllOrNothing ==
  [][(resp'.op = "delete" /\ resp'.status # 200) =>
       /\ redis_db' = redis_db
       /\ faiss_index' = faiss_index
       /\ \A p \in 1..Len(owner') : owner'[p] \in DOMAIN redis_db'
    ]_vars

\* the stages of a delete_document and of an add_document in flight
DeleteStages == {"delete_del", "delete_rebuild"}

AddStages == {"add_hset", "add_append"}

C28_ConcurrentDeletes ==
  \A p, q \in Procs :
    ( /\ p # q /\ pc[p] = "idle" /\ pc[q] = "idle"
      /\ c_resp[p].op = "delete" /\ c_resp[q].op = "delete"
      /\ c_resp[p].id # c_resp[q].id
      /\ c_resp[p].present /\ c_resp[q].present
      /\ c_resp[p].others \cap DeleteStages # {} ) =>
      /\ c_resp[p].status = 200 /\ c_resp[q].status = 200
      /\ PositionsOf(owner, DocKey(c_resp[p].id)) = {}
      /\ PositionsOf(owner, DocKey(c_resp[q].id)) = {}
      /\ Len(index_objs[faiss_global]) = Cardinality(DOMAIN redis_db)

====
